---- MODULE Spec2Model ----
(***************************************************************************)
(* Model of the Namada auto-compounding bot.                               *)
(*                                                                         *)
(*   Spec     the orchestration loop of main.rs with the scheduler of      *)
(*            state.rs and the executor calls of namada.rs.  Every RPC     *)
(*            answer is an input: a call may fail, a balance read returns  *)
(*            the chain's balance, which other parties may change.         *)
(*   SpecInt  the same loop together with the interrupt signal.            *)
(*   SpecOpt  compute_frequency_opt of opt.rs on its own: the cost         *)
(*            function, and the Nelder-Mead run it hands the cost to, one  *)
(*            solver iteration per step.                                   *)
(*   SpecSim  calculate_compound_balance of opt.rs on its own, one pass    *)
(*            of its loop per step.                                        *)
(*                                                                         *)
(* Amounts are token::Amount (unsigned), timestamps are whole seconds      *)
(* counted from the start of the process.                                  *)
(***************************************************************************)
EXTENDS Integers, Sequences, FiniteSets

(***************************************************************************)
(* Bounds of the model.                                                    *)
(***************************************************************************)
\* The clock stops being advanced once a further sleep would pass MaxTime.
MaxTime == 14400
\* Largest balance the chain reports for the delegator.
MaxBalance == 2

\* Largest time_in_years calculate_compound_balance is run with.
MaxYears == 2

\* The validator identifiers the chain may return for the delegator.
ValidatorIds == {"v1", "v2"}

\* --sleep-for values the process may be started with (config.rs:18-19).
SleepChoices == {1800, 3600}

\* Values of OptimizationResult.optimal_frequency handed to the scheduler:
\* 172 and 343 are the regression points of opt.rs:124-142, 8760 is the
\* feasibility limit, 0 the smallest u64 (a parameter below 1.0 cast by
\* `as u64`).
Frequencies == {0, 172, 343, 8760}

(***************************************************************************)
(* Program constants.                                                      *)
(***************************************************************************)
\* Exit status of a Rust process whose main thread panicked (every
\* `.unwrap()` / `.expect()` of main.rs and namada.rs).
PanicExitCode == 101

\* 365.0 * 24.0 * 60.0 * 60.0 of OptimizationResult::seconds_between_compunding.
SecondsPerYear == 365 * 24 * 60 * 60

VARIABLES
    config,         \* AppConfig: [dry_run, one_time, sleep_for]
    state,          \* State: [last_claimed_timestamp, claimed_first_time]
    now,            \* SystemTime::now() in seconds
    pc,             \* position of main
    exit_code,      \* <<>> while running, <<code>> once the process ended
    error,          \* what ended the process abnormally, "none" otherwise
    cycles,         \* iterations of `loop` started so far
    validators,     \* HashSet<Address> of the current cycle
    commission_failed, \* validators whose commission query returned Err
    bond_failed,    \* validators whose bond query returned Err
    commissions,    \* Vec<f64> of the cycle, in completion order
    mean_commissions, \* <<>> or <<mean>>
    amount_bonded,  \* <<>> or <<sum of the bonds>>
    optimal_frequency, \* optimization_result.optimal_frequency of the cycle
    decision,       \* outcome of should_reclaim in the cycle
    next_reclaim,   \* <<>> or <<seconds next_reclaim_in returned>>
    balance,        \* chain: native-token balance of the delegator
    balance_pre,    \* <<>> or <<amount>>
    balance_post,   \* <<>> or <<amount>>
    rewards,        \* <<>> or <<amount>>
    steps,          \* executor calls made in the current cycle, in order
    bond_amount,    \* <<>> or <<amount passed to bond()>>
    submitted,      \* chain: transactions this process has broadcast
    opt_input,      \* compute_frequency_opt's arguments [principal, apr, fee]
    nm_shrinks,     \* whether the linked argmin shrinks on a failed contraction
    simplex,        \* NelderMead.params: <<[param, cost], [param, cost]>>
    iters,          \* solver iterations done
    opt_pc,         \* "off", "init", "run" or "done"
    opt_result,     \* <<>> or <<[max_balance, optimal_frequency]>>
    sim_input,      \* calculate_compound_balance's arguments
    sim_balance,    \* its local `balance`
    sim_round,      \* passes of its loop completed
    sim_pc,         \* "off", "loop" or "done"
    sim_result      \* <<>> or <<returned balance>>

vars == <<config, state, now, pc, exit_code, error, cycles, validators,
          commission_failed, bond_failed, commissions, mean_commissions,
          amount_bonded, optimal_frequency, decision, next_reclaim, balance,
          balance_pre, balance_post, rewards, steps, bond_amount, submitted,
          opt_input, nm_shrinks, simplex, iters, opt_pc, opt_result,
          sim_input, sim_balance, sim_round, sim_pc, sim_result>>

mainVars == <<config, state, now, pc, exit_code, error, cycles, validators,
              commission_failed, bond_failed, commissions, mean_commissions,
              amount_bonded, optimal_frequency, decision, next_reclaim,
              balance, balance_pre, balance_post, rewards, steps, bond_amount,
              submitted>>

optVars == <<opt_input, nm_shrinks, simplex, iters, opt_pc, opt_result>>

simVars == <<sim_input, sim_balance, sim_round, sim_pc, sim_result>>

aggLocals == <<commission_failed, bond_failed, commissions, mean_commissions,
               amount_bonded>>

cycleLocals == <<validators, aggLocals, optimal_frequency, decision,
                 next_reclaim, balance_pre, balance_post, rewards, steps,
                 bond_amount>>

(***************************************************************************)
(* state.rs                                                                *)
(***************************************************************************)
\* mutant: the first-claim shortcut is dropped
should_reclaim_no_first(st, compunding_frequency, t) ==
    t - st.last_claimed_timestamp >= compunding_frequency

\* State::init
init(t) == [last_claimed_timestamp |-> t, claimed_first_time |-> FALSE]

\* State::should_reclaim: the argument is compared with elapsed seconds as is.
should_reclaim(st, compunding_frequency, t) ==
    \/ ~st.claimed_first_time
    \/ t - st.last_claimed_timestamp >= compunding_frequency

\* State::next_reclaim_in
next_reclaim_in(st, compunding_frequency, t) ==
    (compunding_frequency * 60 * 60) - (t - st.last_claimed_timestamp)

\* mutant: the timestamp is not refreshed
update_stale(st, t) ==
    [last_claimed_timestamp |-> st.last_claimed_timestamp,
     claimed_first_time |-> TRUE]

\* State::update
update(st, t) == [last_claimed_timestamp |-> t, claimed_first_time |-> TRUE]

(***************************************************************************)
(* namada.rs: what the two executor calls broadcast.                       *)
(***************************************************************************)
\* NamadaSdk::claim_rewards builds `futures::stream::iter(validators).map(..)`
\* and drops it: a stream does nothing unless polled, and the closure's body
\* ends at the comment "Submit transaction here".  Nothing is broadcast.
claim_rewards(vals) == {}

\* NamadaSdk::bond: the mapped stream `bonds` is never polled either.
bond(vals, amount) == {}

\* mutant: the unsigned subtraction clamps at zero
saturating_sub(a, b) == IF a >= b THEN <<a - b>> ELSE <<0>>

\* mutant: the subtraction is forgotten
no_sub(a, b) == <<a>>

\* token::Amount::checked_sub: <<>> is None
checked_sub(a, b) == IF a >= b THEN <<a - b>> ELSE <<>>

(***************************************************************************)
(* utils.rs and the per-validator queries of the aggregation.              *)
(*                                                                         *)
(* A Result or an Option is <<>> for Err / None and <<v>> for Ok(v) /      *)
(* Some(v).  A commission is an f64 counted in 1/10000, a bond a           *)
(* token::Amount.                                                          *)
(***************************************************************************)
\* What the chain holds for each validator the delegator may have: its
\* commission rate (5 % and 10 %) and the delegator's bond with it.
CommissionRate == [v \in ValidatorIds |-> IF v = "v1" THEN 500 ELSE 1000]

BondedAmount == [v \in ValidatorIds |-> IF v = "v1" THEN 1 ELSE 2]

\* buffer_unordered(20) yields the answers in the order the queries
\* complete: any arrangement of the validators.
CompletionOrders(vals) ==
    { order \in [1..Cardinality(vals) -> vals] :
        \A i, j \in 1..Cardinality(vals) : order[i] = order[j] => i = j }

\* NamadaSdk::query_validator_commissions, namada.rs:271-281, for a query
\* that returns: Err when the RPC or dec_to_f64 fails, Ok(rate) otherwise.
query_validator_commissions(validator, failed) ==
    IF validator \in failed THEN <<>> ELSE <<CommissionRate[validator]>>

\* NamadaSdk::query_bond, namada.rs:283-294
query_bond(validator, failed) ==
    IF validator \in failed THEN <<>> ELSE <<BondedAmount[validator]>>

\* Result::unwrap_or_default: 0.0 for an f64, Amount::zero() for an Amount
unwrap_or_default(result) == IF result = <<>> THEN 0 ELSE result[1]

\* `vec.iter().sum()` of utils::mean and the checked_add fold of
\* main.rs:79-81: the elements are added from the first to the last.  (The
\* bonds of one delegator add up to no more than the token supply, itself
\* an Amount, so checked_add returns Some.)
RECURSIVE sum(_)
sum(vec) == IF Len(vec) = 0 THEN 0 ELSE vec[1] + sum(Tail(vec))

\* mutant: no sample counts as a mean of zero
mean_or_zero(vec) ==
    IF Len(vec) = 0 THEN <<0>>
    ELSE <<(2 * sum(vec) + Len(vec)) \div (2 * Len(vec))>>

\* utils::mean, utils.rs:34-40: None for an empty slice, else the sum
\* divided by the length (the quotient rounded to the nearest unit)
mean(vec) ==
    IF Len(vec) = 0 THEN <<>>
    ELSE <<(2 * sum(vec) + Len(vec)) \div (2 * Len(vec))>>

(***************************************************************************)
(* main.rs                                                                 *)
(***************************************************************************)
ExecutorOrder == <<"balance_pre", "claim_rewards", "balance_post", "bond">>

Init ==
    /\ config \in [dry_run : BOOLEAN, one_time : BOOLEAN, sleep_for : SleepChoices]
    /\ now = 0
    /\ state = init(0)
    /\ pc = "epoch"
    /\ exit_code = <<>>
    /\ error = "none"
    /\ cycles = 1
    /\ validators = {}
    /\ commission_failed = {}
    /\ bond_failed = {}
    /\ commissions = <<>>
    /\ mean_commissions = <<>>
    /\ amount_bonded = <<>>
    /\ optimal_frequency = <<>>
    /\ decision = "none"
    /\ next_reclaim = <<>>
    /\ balance \in 0..MaxBalance
    /\ balance_pre = <<>>
    /\ balance_post = <<>>
    /\ rewards = <<>>
    /\ steps = <<>>
    /\ bond_amount = <<>>
    /\ submitted = {}
    /\ opt_input = <<>>
    /\ nm_shrinks = FALSE
    /\ simplex = <<>>
    /\ iters = 0
    /\ opt_pc = "off"
    /\ opt_result = <<>>
    /\ sim_input = <<>>
    /\ sim_balance = 0
    /\ sim_round = 0
    /\ sim_pc = "off"
    /\ sim_result = <<>>

\* A panic of the main thread: the process ends with status 101.
Panic(why) ==
    /\ pc' = "exited"
    /\ exit_code' = <<PanicExitCode>>
    /\ error' = why

\* std::process::exit(code)
Exit(code) ==
    /\ pc' = "exited"
    /\ exit_code' = <<code>>
    /\ error' = "none"

Goto(l) ==
    /\ pc' = l
    /\ UNCHANGED <<exit_code, error>>

\* main.rs:34  get_current_epoch().await.unwrap()
GetEpoch ==
    /\ pc = "epoch"
    /\ UNCHANGED <<optVars, simVars>>
    /\ \/ Goto("inflation")
       \/ Panic("transport")
    /\ UNCHANGED <<config, state, now, cycles, cycleLocals, balance, submitted>>

\* main.rs:36  get_pos_inflation_rate().await.unwrap(): the RPC or dec_to_f64 fails
GetInflation ==
    /\ pc = "inflation"
    /\ UNCHANGED <<optVars, simVars>>
    /\ \/ Goto("validators")
       \/ Panic("transport")
       \/ Panic("conversion")
    /\ UNCHANGED <<config, state, now, cycles, cycleLocals, balance, submitted>>

\* main.rs:46-49  get_delegators_validators(..).await.unwrap()
GetValidators ==
    /\ pc = "validators"
    /\ UNCHANGED <<optVars, simVars>>
    /\ \/ /\ validators' \in SUBSET ValidatorIds
          /\ Goto("commissions")
       \/ /\ Panic("transport")
          /\ UNCHANGED validators
    /\ UNCHANGED <<config, state, now, cycles, aggLocals, optimal_frequency,
                   decision, next_reclaim, balance_pre, balance_post,
                   rewards, steps, bond_amount, balance, submitted>>

\* main.rs:51-65  one commission query per validator, collected in
\* completion order; a query that returns Err counts 0 (unwrap_or_default).
\* utils::mean is None for no validator, and the unwrap of main.rs:65
\* panics.  A query whose RPC answer carries no commission rate does not
\* return: `commission.commission_rate.unwrap()` of namada.rs:280 panics
\* inside it, and unwrap_or_default only catches an Err.
Commissions ==
    /\ pc = "commissions"
    /\ UNCHANGED <<optVars, simVars>>
    /\ \/ \E failed \in SUBSET validators, order \in CompletionOrders(validators) :
            /\ commission_failed' = failed
            /\ commissions' =
                  [i \in 1..Cardinality(validators) |->
                     unwrap_or_default(query_validator_commissions(order[i], failed))]
            /\ mean_commissions' = mean(commissions')
            /\ IF mean_commissions' = <<>>
                 THEN Panic("empty_input")
                 ELSE Goto("bonds")
       \/ /\ validators # {}
          /\ Panic("missing_commission")
          /\ UNCHANGED <<commission_failed, commissions, mean_commissions>>
    /\ UNCHANGED <<config, state, now, cycles, validators, bond_failed,
                   amount_bonded, optimal_frequency, decision, next_reclaim,
                   balance_pre, balance_post, rewards, steps, bond_amount,
                   balance, submitted>>

\* main.rs:67-84  one bond query per validator, a failed one counting
\* Amount::zero(), folded with checked_add in completion order; a failed
\* amount_to_f64 of the total leaves main through `?`
Bonds ==
    /\ pc = "bonds"
    /\ UNCHANGED <<optVars, simVars>>
    /\ \/ \E failed \in SUBSET validators, order \in CompletionOrders(validators) :
            /\ bond_failed' = failed
            /\ amount_bonded' =
                  <<sum([i \in 1..Cardinality(validators) |->
                           unwrap_or_default(query_bond(order[i], failed))])>>
            /\ Goto("optimize")
       \/ /\ pc' = "exited"
          /\ exit_code' = <<1>>
          /\ error' = "conversion"
          /\ UNCHANGED <<bond_failed, amount_bonded>>
    /\ UNCHANGED <<config, state, now, cycles, validators, commission_failed,
                   commissions, mean_commissions, optimal_frequency,
                   decision, next_reclaim, balance_pre, balance_post,
                   rewards, steps, bond_amount, balance, submitted>>

\* main.rs:86-93  compute_frequency_opt(..).unwrap().  Its arguments are
\* aggregated chain data, so the cycle sees any frequency the optimizer
\* returns (SpecOpt runs the optimizer itself); None makes the unwrap panic.
Optimize ==
    /\ pc = "optimize"
    /\ UNCHANGED <<optVars, simVars>>
    /\ \/ /\ \E f \in Frequencies : optimal_frequency' = <<f>>
          /\ Goto("dry_run")
       \/ /\ Panic("optimization")
          /\ UNCHANGED optimal_frequency
    /\ UNCHANGED <<config, state, now, cycles, validators, aggLocals,
                   decision, next_reclaim, balance_pre, balance_post,
                   rewards, steps, bond_amount, balance, submitted>>

\* mutant: the dry-run flag is not looked at
dry_run_ignored ==
    /\ pc = "dry_run"
    /\ UNCHANGED <<optVars, simVars>>
    /\ Goto("decide")
    /\ UNCHANGED <<config, state, now, cycles, cycleLocals, balance, submitted>>

\* main.rs:95-114  after the optimizer and before the scheduler: a dry run
\* logs the result and calls std::process::exit(0)
DryRun ==
    /\ pc = "dry_run"
    /\ UNCHANGED <<optVars, simVars>>
    /\ IF config.dry_run THEN Exit(0) ELSE Goto("decide")
    /\ UNCHANGED <<config, state, now, cycles, cycleLocals, balance, submitted>>

\* main.rs:116-123  the go/no-go decision; the idle branch logs
\* next_reclaim_in and goes to exit_or_continue
Decide ==
    /\ pc = "decide"
    /\ UNCHANGED <<optVars, simVars>>
    /\ IF should_reclaim(state, optimal_frequency[1], now)
         THEN /\ decision' = "ready"
              /\ next_reclaim' = <<>>
              /\ Goto("native_token")
         ELSE /\ decision' = "idle"
              /\ next_reclaim' =
                    <<next_reclaim_in(state, optimal_frequency[1], now)>>
              /\ Goto("exit_or_continue")
    /\ UNCHANGED <<config, state, now, cycles, validators, aggLocals,
                   optimal_frequency, balance_pre, balance_post, rewards,
                   steps, bond_amount, balance, submitted>>

\* main.rs:125  query_native_token().await.unwrap()
QueryNativeToken ==
    /\ pc = "native_token"
    /\ UNCHANGED <<optVars, simVars>>
    /\ \/ Goto("balance_pre")
       \/ Panic("transport")
    /\ UNCHANGED <<config, state, now, cycles, cycleLocals, balance, submitted>>

\* main.rs:127-130  query_balance(..).await.unwrap()
BalancePre ==
    /\ pc = "balance_pre"
    /\ UNCHANGED <<optVars, simVars>>
    /\ \/ /\ balance_pre' = <<balance>>
          /\ steps' = Append(steps, "balance_pre")
          /\ Goto("claim")
       \/ /\ Panic("transport")
          /\ UNCHANGED <<balance_pre, steps>>
    /\ UNCHANGED <<config, state, now, cycles, validators, aggLocals,
                   optimal_frequency, decision, next_reclaim, balance_post,
                   rewards, bond_amount, balance, submitted>>

\* main.rs:134-137  claim_rewards(..).await.unwrap(); inside it
\* NamadaImpl::new(..).await.expect(..) panics when the context cannot be built
ClaimRewards ==
    /\ pc = "claim"
    /\ UNCHANGED <<optVars, simVars>>
    /\ \/ /\ submitted' = submitted \cup claim_rewards(validators)
          /\ steps' = Append(steps, "claim_rewards")
          /\ Goto("balance_post")
       \/ /\ Panic("transport")
          /\ UNCHANGED <<submitted, steps>>
    /\ UNCHANGED <<config, state, now, cycles, validators, aggLocals,
                   optimal_frequency, decision, next_reclaim, balance_pre,
                   balance_post, rewards, bond_amount, balance>>

\* main.rs:139-142
BalancePost ==
    /\ pc = "balance_post"
    /\ UNCHANGED <<optVars, simVars>>
    /\ \/ /\ balance_post' = <<balance>>
          /\ steps' = Append(steps, "balance_post")
          /\ Goto("rewards")
       \/ /\ Panic("transport")
          /\ UNCHANGED <<balance_post, steps>>
    /\ UNCHANGED <<config, state, now, cycles, validators, aggLocals,
                   optimal_frequency, decision, next_reclaim, balance_pre,
                   rewards, bond_amount, balance, submitted>>

\* main.rs:146  balance_post.checked_sub(balance_pre).unwrap()
ComputeRewards ==
    /\ pc = "rewards"
    /\ UNCHANGED <<optVars, simVars>>
    /\ rewards' = checked_sub(balance_post[1], balance_pre[1])
    /\ IF rewards' = <<>> THEN Panic("integrity") ELSE Goto("bond")
    /\ UNCHANGED <<config, state, now, cycles, validators, aggLocals,
                   optimal_frequency, decision, next_reclaim, balance_pre,
                   balance_post, steps, bond_amount, balance, submitted>>

\* main.rs:148-151  bond(..).await.unwrap(); NamadaSdk::bond always returns Ok
Bond ==
    /\ pc = "bond"
    /\ UNCHANGED <<optVars, simVars>>
    /\ bond_amount' = rewards
    /\ submitted' = submitted \cup bond(validators, rewards[1])
    /\ steps' = Append(steps, "bond")
    /\ Goto("update")
    /\ UNCHANGED <<config, state, now, cycles, validators, aggLocals,
                   optimal_frequency, decision, next_reclaim, balance_pre,
                   balance_post, rewards, balance>>

\* main.rs:153  state.update()
StateUpdate ==
    /\ pc = "update"
    /\ UNCHANGED <<optVars, simVars>>
    /\ state' = update(state, now)
    /\ Goto("exit_or_continue")
    /\ UNCHANGED <<config, now, cycles, cycleLocals, balance, submitted>>

\* main.rs:159-166  exit_or_continue(&config, false), called from the idle
\* branch and at the end of a cycle, followed by the next iteration of `loop`
ExitOrContinue ==
    /\ pc = "exit_or_continue"
    /\ UNCHANGED <<optVars, simVars>>
    /\ IF config.one_time
         THEN /\ Exit(0)
              /\ UNCHANGED <<now, cycles, cycleLocals>>
         ELSE /\ now + config.sleep_for <= MaxTime
              /\ now' = now + config.sleep_for
              /\ cycles' = cycles + 1
              /\ validators' = {}
              /\ commission_failed' = {}
              /\ bond_failed' = {}
              /\ commissions' = <<>>
              /\ mean_commissions' = <<>>
              /\ amount_bonded' = <<>>
              /\ optimal_frequency' = <<>>
              /\ decision' = "none"
              /\ next_reclaim' = <<>>
              /\ balance_pre' = <<>>
              /\ balance_post' = <<>>
              /\ rewards' = <<>>
              /\ steps' = <<>>
              /\ bond_amount' = <<>>
              /\ Goto("epoch")
    /\ UNCHANGED <<config, state, balance, submitted>>

\* The chain: the delegator's balance changes through transactions of other
\* parties and of other holders of the key.  It is read only by the two
\* query_balance calls, so the change is taken right before a read.
ChainActivity ==
    /\ pc \in {"balance_pre", "balance_post"}
    /\ UNCHANGED <<optVars, simVars>>
    /\ \E b \in 0..MaxBalance : b # balance /\ balance' = b
    /\ UNCHANGED <<config, state, now, pc, exit_code, error, cycles,
                   cycleLocals, submitted>>

Next ==
    \/ GetEpoch
    \/ GetInflation
    \/ GetValidators
    \/ Commissions
    \/ Bonds
    \/ Optimize
    \/ DryRun
    \/ Decide
    \/ QueryNativeToken
    \/ BalancePre
    \/ ClaimRewards
    \/ BalancePost
    \/ ComputeRewards
    \/ Bond
    \/ StateUpdate
    \/ ExitOrContinue
    \/ ChainActivity

Spec == Init /\ [][Next]_vars

(***************************************************************************)
(* The loop together with the terminal's interrupt signal.                 *)
(***************************************************************************)
\* Status a shell reports for a process ended by SIGINT (signal 2).
SigintStatus == 128 + 2

\* utils.rs:10-20  must_exit_handle, the only code that listens for ctrl-c,
\* is a private function without a caller, and main.rs:22-157 holds no flag
\* and no handler.  The signal keeps its default action: the process ends
\* wherever main is, awaiting an RPC, between two executor calls or in the
\* sleep of exit_or_continue.
Interrupt ==
    /\ pc # "exited"
    /\ pc' = "exited"
    /\ exit_code' = <<SigintStatus>>
    /\ error' = "interrupt"
    /\ UNCHANGED <<config, state, now, cycles, cycleLocals, balance, submitted>>
    /\ UNCHANGED <<optVars, simVars>>

NextInt ==
    \/ Next
    \/ Interrupt

SpecInt == Init /\ [][NextInt]_vars

(***************************************************************************)
(* opt.rs                                                                  *)
(*                                                                         *)
(* f64 values are fixed-point integers, rounded to the nearest unit as     *)
(* IEEE arithmetic rounds to the nearest double: an amount is a multiple   *)
(* of 1/AmountScale token, a frequency a multiple of 1/FreqScale round per *)
(* year (the solver only halves and doubles the distances of its start     *)
(* points, so its iterates stay on that grid until the simplex is narrower *)
(* than one grid step), the apr a multiple of 1/AprScale.                  *)
(***************************************************************************)
AmountScale == 10^3
FreqScale == 2^6
AprScale == 10^2

\* 24.0 * 365.0 of CompoundingOptimization::cost
HoursPerYear == 24 * 365

\* f64::MAX, the cost of an infeasible candidate: the largest value here.
F64Max == 2^30 + (2^30 - 1)

\* state.max_iters(1000)
MaxIters == 1000

\* vec![1.0, 24.0 * 365.0 / 4.0]
InitialParams == <<1 * FreqScale, (HoursPerYear \div 4) * FreqScale>>

\* The arguments compute_frequency_opt is run on, [principal, apr, fee] in
\* units: test_1's (1000, 0.09, 0.005), a principal of 0, a fee larger than
\* the balance after the first round, a fee that makes a second round a loss.
OptInputs ==
    { [principal |-> 1000 * AmountScale, apr |-> 9, fee |-> 5],
      [principal |-> 0, apr |-> 9, fee |-> 5],
      [principal |-> 10, apr |-> 9, fee |-> 50],
      [principal |-> 1000, apr |-> 9, fee |-> 50] }

\* n / d rounded to the nearest integer, for n >= 0 and d > 0
RoundDiv(n, d) == (n + d \div 2) \div d

\* mutant: the number of rounds is rounded up
rounds_up(frequency, time_in_years) ==
    IF frequency * time_in_years <= 0 THEN 0
    ELSE (frequency * time_in_years + FreqScale - 1) \div FreqScale

\* `(frequency * time_in_years) as usize`: the cast truncates and saturates
\* at 0 for a negative product
RoundsOf(frequency, time_in_years) ==
    IF frequency * time_in_years <= 0 THEN 0
    ELSE (frequency * time_in_years) \div FreqScale

\* One pass of the loop body of calculate_compound_balance, opt.rs:19-22.
\* The result 0 stands for the early `return 0.0`: no live balance is 0.
CompoundRound(bal, apr, fee, frequency) ==
    LET grown == bal + RoundDiv(bal * apr * FreqScale, AprScale * frequency) - fee
    IN  IF grown <= 0 THEN 0 ELSE grown

\* n passes of the loop, split in halves to keep the evaluation shallow;
\* once a pass has returned, the remaining ones are skipped.
RECURSIVE CompoundRounds(_, _, _, _, _)
CompoundRounds(bal, apr, fee, frequency, n) ==
    IF n = 0 THEN bal
    ELSE IF n = 1 THEN CompoundRound(bal, apr, fee, frequency)
    ELSE LET first == CompoundRounds(bal, apr, fee, frequency, n \div 2)
         IN  IF first = 0 THEN 0
             ELSE CompoundRounds(first, apr, fee, frequency, n - n \div 2)

\* calculate_compound_balance, opt.rs:6-26.  With no round to run the
\* principal comes back unchanged; otherwise the first pass decides whether
\* a principal of 0 survives (it does not: 0 * (1 + rate) - fee <= 0).
calculate_compound_balance(principal, apr, fee, frequency, time_in_years) ==
    LET n == RoundsOf(frequency, time_in_years)
    IN  IF n = 0 THEN principal
        ELSE LET first == CompoundRound(principal, apr, fee, frequency)
             IN  IF first = 0 THEN 0
                 ELSE CompoundRounds(first, apr, fee, frequency, n - 1)

\* CompoundingOptimization::cost with time_in_years = 1, opt.rs:39-57
cost(in, frequency) ==
    IF frequency > HoursPerYear * FreqScale THEN F64Max
    ELSE LET bal == calculate_compound_balance(in.principal, in.apr, in.fee, frequency, 1)
         IN  IF bal <= 0 THEN F64Max ELSE -bal

Vertex(in, x) == [param |-> x, cost |-> cost(in, x)]

\* NelderMead::sort_param_vecs for two vertices: a stable sort by cost
SortParamVecs(s) == IF s[2].cost < s[1].cost THEN <<s[2], s[1]>> ELSE s

\* d / 2 truncated toward 0: the midpoint on the frequency grid
Half(d) == IF d >= 0 THEN d \div 2 ELSE -((-d) \div 2)

\* NelderMead::terminate: the standard deviation of the two costs is below
\* f64::EPSILON.  With an f64::MAX among them the sum of squares is +inf,
\* so the test passes only for two equal costs below f64::MAX.
SolverConverged(s) == s[1].cost = s[2].cost /\ s[1].cost # F64Max

\* NelderMead::next_iter on a simplex of two vertices <<best, worst>>: the
\* centroid of all vertices but the worst is the best one.  alpha = 1,
\* gamma = 2, rho = sigma = 1/2.  A reflected point better than the best
\* vertex is expanded; otherwise the worst vertex is contracted toward the
\* best.  A contraction point no better than the worst vertex is dropped
\* by the argmin releases that never reach their shrink step and taken by
\* those that shrink (with two vertices the shrunk worst vertex is the
\* contraction point); the repository pins neither: nm_shrinks.
NextIter(in, s, shrinks) ==
    LET x0 == s[1].param
        xw == s[2].param
        xr == Vertex(in, x0 + (x0 - xw))
        xe == Vertex(in, x0 + 2 * (xr.param - x0))
        xc == Vertex(in, x0 + Half(xw - x0))
    IN  SortParamVecs(
          IF xr.cost < s[1].cost
            THEN <<s[1], IF xe.cost < xr.cost THEN xe ELSE xr>>
          ELSE IF xc.cost < s[2].cost \/ shrinks
            THEN <<s[1], xc>>
          ELSE s)

\* `optimal_frequency as u64`: truncates, and saturates at 0 below zero
AsU64(frequency) == IF frequency <= 0 THEN 0 ELSE frequency \div FreqScale

\* compute_frequency_opt, opt.rs:111-117: the best vertex and its cost
OptimizationResult(s) ==
    [max_balance |-> -s[1].cost, optimal_frequency |-> AsU64(s[1].param)]

InitOpt ==
    /\ config = [dry_run |-> FALSE, one_time |-> TRUE, sleep_for |-> 1800]
    /\ now = 0
    /\ state = init(0)
    /\ pc = "optimize"
    /\ exit_code = <<>>
    /\ error = "none"
    /\ cycles = 1
    /\ validators = {}
    /\ commission_failed = {}
    /\ bond_failed = {}
    /\ commissions = <<>>
    /\ mean_commissions = <<>>
    /\ amount_bonded = <<>>
    /\ optimal_frequency = <<>>
    /\ decision = "none"
    /\ next_reclaim = <<>>
    /\ balance = 0
    /\ balance_pre = <<>>
    /\ balance_post = <<>>
    /\ rewards = <<>>
    /\ steps = <<>>
    /\ bond_amount = <<>>
    /\ submitted = {}
    /\ opt_input \in OptInputs
    /\ nm_shrinks \in BOOLEAN
    /\ simplex = <<>>
    /\ iters = 0
    /\ opt_pc = "init"
    /\ opt_result = <<>>
    /\ sim_input = <<>>
    /\ sim_balance = 0
    /\ sim_round = 0
    /\ sim_pc = "off"
    /\ sim_result = <<>>

\* opt.rs:103-106 and NelderMead::init: the two start points are costed
\* and sorted
SolverInit ==
    /\ opt_pc = "init"
    /\ simplex' = SortParamVecs(<<Vertex(opt_input, InitialParams[1]),
                                  Vertex(opt_input, InitialParams[2])>>)
    /\ opt_pc' = "run"
    /\ UNCHANGED <<mainVars, simVars, opt_input, nm_shrinks, iters, opt_result>>

\* One iteration of Executor::run
SolverIterate ==
    /\ opt_pc = "run"
    /\ ~SolverConverged(simplex)
    /\ iters < MaxIters
    /\ simplex' = NextIter(opt_input, simplex, nm_shrinks)
    /\ iters' = iters + 1
    /\ UNCHANGED <<mainVars, simVars, opt_input, nm_shrinks, opt_pc, opt_result>>

\* Executor::run returns Ok both when the solver converged and when the
\* iteration budget is spent; opt.rs:111-117 wraps the state in Some
SolverFinish ==
    /\ opt_pc = "run"
    /\ SolverConverged(simplex) \/ iters >= MaxIters
    /\ opt_result' = <<OptimizationResult(simplex)>>
    /\ opt_pc' = "done"
    /\ UNCHANGED <<mainVars, simVars, opt_input, nm_shrinks, simplex, iters>>

NextOpt ==
    \/ SolverInit
    \/ SolverIterate
    \/ SolverFinish

SpecOpt == InitOpt /\ [][NextOpt]_vars

(***************************************************************************)
(* calculate_compound_balance on its own, one pass of its loop per step.   *)
(***************************************************************************)
\* The arguments it is run on, in the units of the fixed-point grid: test_2's
\* (1000, 0.05, 0.06, 81, 1) is among them, and so are a principal of 0, a
\* fee of 0, an apr of 0, and frequencies of 1/2 and 5/2 rounds per year.
SimPrincipals == {0, 10, 1000, 1000 * AmountScale}

SimAprs == {0, 5, 9}

SimFees == {0, 5, 60}

SimFrequencies == {FreqScale \div 2, 1 * FreqScale, (5 * FreqScale) \div 2,
                   3 * FreqScale, 81 * FreqScale}

\* test_2, opt.rs:144-148: the arguments and the asserted 1046.272905533
Test2Input ==
    [principal |-> 1000 * AmountScale, apr |-> 5, fee |-> 60,
     frequency |-> 81 * FreqScale, time_in_years |-> 1]

Test2Balance == 1046273

SimInputs ==
    [principal : SimPrincipals, apr : SimAprs, fee : SimFees,
     frequency : SimFrequencies, time_in_years : 1..MaxYears]

InitSim ==
    /\ config = [dry_run |-> FALSE, one_time |-> TRUE, sleep_for |-> 1800]
    /\ now = 0
    /\ state = init(0)
    /\ pc = "optimize"
    /\ exit_code = <<>>
    /\ error = "none"
    /\ cycles = 1
    /\ validators = {}
    /\ commission_failed = {}
    /\ bond_failed = {}
    /\ commissions = <<>>
    /\ mean_commissions = <<>>
    /\ amount_bonded = <<>>
    /\ optimal_frequency = <<>>
    /\ decision = "none"
    /\ next_reclaim = <<>>
    /\ balance = 0
    /\ balance_pre = <<>>
    /\ balance_post = <<>>
    /\ rewards = <<>>
    /\ steps = <<>>
    /\ bond_amount = <<>>
    /\ submitted = {}
    /\ opt_input = <<>>
    /\ nm_shrinks = FALSE
    /\ simplex = <<>>
    /\ iters = 0
    /\ opt_pc = "off"
    /\ opt_result = <<>>
    /\ sim_input \in SimInputs
    /\ sim_balance = sim_input.principal              \* opt.rs:16
    /\ sim_round = 0
    /\ sim_pc = "loop"
    /\ sim_result = <<>>

\* opt.rs:18-23  one pass of the loop: the balance grows and pays the fee;
\* a balance that is not positive afterwards makes the function return 0.0
SimRound ==
    /\ sim_pc = "loop"
    /\ sim_round < RoundsOf(sim_input.frequency, sim_input.time_in_years)
    /\ LET grown == CompoundRound(sim_balance, sim_input.apr, sim_input.fee,
                                  sim_input.frequency)
       IN  IF grown = 0
             THEN /\ sim_result' = <<0>>
                  /\ sim_pc' = "done"
                  /\ UNCHANGED <<sim_balance, sim_round>>
             ELSE /\ sim_balance' = grown
                  /\ sim_round' = sim_round + 1
                  /\ UNCHANGED <<sim_result, sim_pc>>
    /\ UNCHANGED <<mainVars, optVars, sim_input>>

\* opt.rs:25  the loop is over: the balance is returned
SimReturn ==
    /\ sim_pc = "loop"
    /\ sim_round >= RoundsOf(sim_input.frequency, sim_input.time_in_years)
    /\ sim_result' = <<sim_balance>>
    /\ sim_pc' = "done"
    /\ UNCHANGED <<mainVars, optVars, sim_input, sim_balance, sim_round>>

NextSim ==
    \/ SimRound
    \/ SimReturn

SpecSim == InitSim /\ [][NextSim]_vars

(***************************************************************************)
(* Properties of the orchestration loop, checked under Spec.               *)
(***************************************************************************)
\* The positions of main between the go decision and state.update().
ExecutionPcs == {"native_token", "balance_pre", "claim", "balance_post",
                 "rewards", "bond", "update"}

Called(step) == \E i \in 1..Len(steps) : steps[i] = step

\* C1: once a claim has happened, a cycle goes on to claim and re-bond only
\* if the seconds elapsed since the last claim are at least
\* D = SecondsPerYear / optimal_frequency, and it idles only if they are
\* fewer (elapsed >= D is elapsed * optimal_frequency >= SecondsPerYear; D
\* is defined for optimal_frequency > 0).
C1_ReclaimOnlyAfterDuration ==
    LET elapsed == now - state.last_claimed_timestamp
        f == optimal_frequency[1]
    IN  /\ (state.claimed_first_time /\ decision = "ready" /\ pc \in ExecutionPcs
                /\ f > 0)
             => elapsed * f >= SecondsPerYear
        /\ (state.claimed_first_time /\ decision = "idle" /\ f > 0)
             => elapsed * f < SecondsPerYear

\* C2: the executor calls of a cycle are made in the order balance_pre,
\* claim_rewards, balance_post, bond, each snapshot is taken by its own call,
\* and the amount handed to bond is balance_post - balance_pre.
C2_ExecutorOrder ==
    /\ Len(steps) <= Len(ExecutorOrder)
    /\ \A i \in 1..Len(steps) : steps[i] = ExecutorOrder[i]
    /\ (balance_pre # <<>>) <=> Called("balance_pre")
    /\ (balance_post # <<>>) <=> Called("balance_post")
    /\ (bond_amount # <<>>) <=> Called("bond")
    /\ bond_amount # <<>> => bond_amount[1] = balance_post[1] - balance_pre[1]

\* A cycle ran all four executor calls and bonded a positive reward.
C2_Witness ==
    /\ steps = ExecutorOrder
    /\ bond_amount # <<>>
    /\ bond_amount[1] > 0
    /\ balance_pre[1] > 0

\* C3: when the balance read after the claim is lower than the one read
\* before it, bond is not called in that cycle, no reward value exists (it
\* is not clamped to zero), and the cycle ends with the integrity error.
C3_NoBondOnDecrease ==
    (balance_pre # <<>> /\ balance_post # <<>> /\ balance_post[1] < balance_pre[1])
        => /\ ~Called("bond")
           /\ bond_amount = <<>>
           /\ rewards = <<>>
           /\ pc \in {"rewards", "exited"}
           /\ pc = "exited" => (error = "integrity" /\ exit_code # <<0>>)

\* The balance went down between the two reads and the cycle has ended.
C3_Witness ==
    /\ balance_pre # <<>> /\ balance_post # <<>>
    /\ balance_post[1] < balance_pre[1]
    /\ pc = "exited"
    /\ error = "integrity"

\* C4: after claim_rewards returned Ok a claim-rewards transaction has been
\* broadcast for every validator of the cycle, after bond returned Ok a bond
\* transaction has been broadcast for each of them, and the scheduler is
\* marked as claimed only after such broadcasts.
C4_SubmittedForAllValidators ==
    /\ Called("claim_rewards") =>
          \A v \in validators :
             \E tx \in submitted : tx.kind = "claim_rewards" /\ tx.validator = v
    /\ Called("bond") =>
          \A v \in validators :
             \E tx \in submitted : tx.kind = "bond" /\ tx.validator = v
    /\ state.claimed_first_time =>
          /\ \E tx \in submitted : tx.kind = "claim_rewards"
          /\ \E tx \in submitted : tx.kind = "bond"

\* C7: the scheduler state changes only in the step that follows a cycle's
\* successful claim and bond calls, and that step sets it to (now, TRUE).
C7_StateFrame ==
    [][ /\ state' # state => (pc = "update" /\ steps = ExecutorOrder)
        /\ pc = "update" =>
              state' = [last_claimed_timestamp |-> now,
                        claimed_first_time |-> TRUE]
      ]_vars

\* The state was updated by a cycle later than the first one.
C7_Witness ==
    /\ state.claimed_first_time
    /\ state.last_claimed_timestamp > 0
    /\ state.last_claimed_timestamp = now

\* C8: while nothing has been claimed the scheduler answers "reclaim" for
\* every frequency argument, zero and the largest included, and no cycle
\* takes the idle branch.
C8_FreshStateReady ==
    ~state.claimed_first_time =>
        /\ \A f \in Frequencies : should_reclaim(state, f, now)
        /\ decision # "idle"

\* A fresh state went on to the execution phase although no time had passed
\* and the argument was the largest one.
C8_Witness ==
    /\ ~state.claimed_first_time
    /\ decision = "ready"
    /\ optimal_frequency = <<8760>>
    /\ now - state.last_claimed_timestamp = 0

\* C9: in continuous mode a transport, conversion or optimizer failure never
\* ends the process.
C9_ContinuousSurvivesErrors ==
    ~config.one_time =>
        ~(pc = "exited" /\ error \in {"transport", "conversion", "optimization"})

\* C10: a one-shot process ends after exactly one cycle with status 0 when
\* the cycle succeeded and status 1 when it hit a fatal error; a continuous
\* process that is not a dry run does not end.
C10_OneShotExitCodes ==
    /\ (config.one_time /\ pc = "exited") =>
          /\ cycles = 1
          /\ now = 0
          /\ error = "none" => exit_code = <<0>>
          /\ error # "none" => exit_code = <<1>>
    /\ (~config.one_time /\ ~config.dry_run) => pc # "exited"

\* C11: a dry run never calls the executor, never broadcasts a transaction
\* and never touches the scheduler state or asks it for a decision; it does
\* not start a second cycle, and when it ends without an error it ends with
\* status 0 after the optimizer's result was computed.
C11_DryRunSubmitsNothing ==
    config.dry_run =>
        /\ submitted = {}
        /\ steps = <<>>
        /\ state = init(0)
        /\ decision = "none"
        /\ pc \notin ExecutionPcs \cup {"decide", "exit_or_continue"}
        /\ cycles = 1
        /\ (pc = "exited" /\ error = "none") =>
              (exit_code = <<0>> /\ optimal_frequency # <<>>)

\* A dry run ended with status 0 on a result for which the fresh scheduler
\* would have gone on to claim.
C11_Witness ==
    /\ config.dry_run
    /\ pc = "exited"
    /\ exit_code = <<0>>
    /\ optimal_frequency # <<>>
    /\ should_reclaim(state, optimal_frequency[1], now)

\* The sum of f over the members of S, in no particular order.
RECURSIVE SumOver(_, _)
SumOver(S, f) ==
    IF S = {} THEN 0
    ELSE LET v == CHOOSE x \in S : TRUE
         IN  f[v] + SumOver(S \ {v}, f)

\* C13: no per-validator query ends the cycle by failing; the mean
\* commission is the sum of the rates of the validators whose query
\* succeeded divided by the number of all validators, the bonded amount is
\* the sum of the bonds of the validators whose query succeeded, whatever
\* the completion order was.
C13_FailSoftAggregation ==
    /\ ~(pc = "exited" /\ error = "missing_commission")
    /\ mean_commissions # <<>> =>
          LET n == Cardinality(validators)
              total == SumOver(validators \ commission_failed, CommissionRate)
          IN  mean_commissions[1] = (2 * total + n) \div (2 * n)
    /\ amount_bonded # <<>> =>
          amount_bonded[1] = SumOver(validators \ bond_failed, BondedAmount)

\* The positions of main after `utils::mean(&commissions).unwrap()`.
AfterMeanPcs == {"bonds", "optimize", "dry_run", "decide", "exit_or_continue"}
                    \cup ExecutionPcs

\* C14: the mean of no sample is None, and a cycle whose validator set is
\* empty ends at that mean: it gets no bonded sum and no optimizer result,
\* makes no executor call and broadcasts nothing.
C14_EmptySetRejected ==
    /\ mean(<<>>) = <<>>
    /\ pc \in AfterMeanPcs => validators # {}
    /\ (amount_bonded # <<>> \/ optimal_frequency # <<>> \/ steps # <<>>)
          => validators # {}
    /\ (pc = "exited" /\ error = "empty_input") =>
          /\ validators = {}
          /\ mean_commissions = <<>>
          /\ amount_bonded = <<>>
          /\ optimal_frequency = <<>>
          /\ steps = <<>>
          /\ submitted = {}
          /\ exit_code # <<0>>

\* A cycle later than the first found the validator set empty and ended.
C14_Witness ==
    /\ pc = "exited"
    /\ error = "empty_input"
    /\ validators = {}
    /\ cycles > 1

\* C16: the wait the scheduler reports in an idle cycle is positive, and it
\* is what is left of the duration should_reclaim compared the elapsed time
\* with: once it has passed the scheduler answers "reclaim", and one second
\* earlier it does not.
C16_RemainingWait ==
    (decision = "idle" /\ next_reclaim # <<>>) =>
        /\ next_reclaim[1] > 0
        /\ should_reclaim(state, optimal_frequency[1], now + next_reclaim[1])
        /\ ~should_reclaim(state, optimal_frequency[1],
                           now + next_reclaim[1] - 1)

(***************************************************************************)
(* Properties of the loop under interrupts, checked under SpecInt.         *)
(***************************************************************************)
\* C12: an interrupt never ends the process after claim_rewards was called
\* and before bond returned: the sequence of a cycle that has claimed is
\* finished first.
C12_InterruptOnlyAtSleep ==
    (pc = "exited" /\ error = "interrupt") =>
        ~(Called("claim_rewards") /\ ~Called("bond"))

(***************************************************************************)
(* Properties of compute_frequency_opt, checked under SpecOpt.             *)
(***************************************************************************)
\* The whole frequencies 1..MaxCandidate are the candidates a returned
\* balance is compared with.
MaxCandidate == 200

\* C5: the returned max_balance is the largest simulated one-year balance:
\* no feasible whole frequency yields a balance that exceeds it by more
\* than one unit of the amount grid.
C5_ReturnsMaximizer ==
    (opt_pc = "done" /\ opt_result # <<>>) =>
        \A n \in 1..MaxCandidate :
            LET bal == calculate_compound_balance(opt_input.principal,
                           opt_input.apr, opt_input.fee, n * FreqScale, 1)
            IN  bal > 0 => bal <= opt_result[1].max_balance + 1

\* C6: a returned result has optimal_frequency <= 8760 and a positive
\* max_balance, and a run whose best candidate is infeasible returns no
\* result.
C6_NoInfeasibleResult ==
    opt_pc = "done" =>
        /\ opt_result # <<>> =>
              /\ opt_result[1].optimal_frequency <= HoursPerYear
              /\ opt_result[1].max_balance > 0
        /\ simplex[1].cost = F64Max => opt_result = <<>>

\* C15: the reported optimal_frequency is a whole number of rounds per year
\* that is at least 1, and it is the solver's frequency rounded to the
\* nearest whole number.
C15_PositiveIntegralFrequency ==
    (opt_pc = "done" /\ opt_result # <<>>) =>
        /\ opt_result[1].optimal_frequency >= 1
        /\ opt_result[1].optimal_frequency =
              (2 * simplex[1].param + FreqScale) \div (2 * FreqScale)

\* C17: the returned max_balance is the one-year balance simulated at the
\* returned whole optimal_frequency.
C17_FieldsConsistent ==
    (opt_pc = "done" /\ opt_result # <<>>) =>
        opt_result[1].max_balance =
            calculate_compound_balance(opt_input.principal, opt_input.apr,
                opt_input.fee, opt_result[1].optimal_frequency * FreqScale, 1)

(***************************************************************************)
(* Properties of calculate_compound_balance, checked under SpecSim.        *)
(***************************************************************************)
\* The value returned for sim_input with its fee or its apr replaced.
WithFee(fee) ==
    calculate_compound_balance(sim_input.principal, sim_input.apr, fee,
                               sim_input.frequency, sim_input.time_in_years)

WithApr(apr) ==
    calculate_compound_balance(sim_input.principal, apr, sim_input.fee,
                               sim_input.frequency, sim_input.time_in_years)

\* C18: the loop makes no more than floor(frequency * time_in_years) passes
\* and the balance it carries on is positive after every pass; the returned
\* value is never negative, it is the balance after all
\* floor(frequency * time_in_years) passes or 0 from the pass that left no
\* positive balance, it is the value the optimizer's cost function gets,
\* no larger fee gives more and no larger apr gives less; test_2's arguments
\* give test_2's balance to within one unit of the amount grid.
C18_SimulateBalance ==
    LET floor == (sim_input.frequency * sim_input.time_in_years) \div FreqScale
    IN  /\ sim_pc # "off" =>
              /\ sim_round <= floor
              /\ sim_round > 0 => sim_balance > 0
        /\ sim_pc = "done" =>
              /\ sim_result[1] >= 0
              /\ sim_result[1] \in {0, sim_balance}
              /\ sim_round < floor => sim_result[1] = 0
              /\ sim_result[1] = WithFee(sim_input.fee)
              /\ \A fee \in SimFees :
                    fee >= sim_input.fee => WithFee(fee) <= sim_result[1]
              /\ \A apr \in SimAprs :
                    apr >= sim_input.apr => WithApr(apr) >= sim_result[1]
              /\ sim_input = Test2Input =>
                    sim_result[1] - Test2Balance \in -1..1

\* A run with a fractional frequency made floor(5/2 * 2) = 5 passes and
\* returned a balance that a larger fee lowers and a smaller apr lowers.
C18_Witness ==
    /\ sim_pc = "done"
    /\ sim_input.frequency = (5 * FreqScale) \div 2
    /\ sim_input.time_in_years = 2
    /\ sim_round = 5
    /\ sim_result[1] > 0
    /\ \E fee \in SimFees : fee > sim_input.fee /\ WithFee(fee) < sim_result[1]
    /\ \E apr \in SimAprs : apr < sim_input.apr /\ WithApr(apr) < sim_result[1]

====
